---- MODULE Spec2Model ----
(***************************************************************************)
(* twilight gateway, shard/tls.rs: the TLS manager that builds one TLS     *)
(* connector and hands (address, connector) pairs to the shards.           *)
(*                                                                         *)
(* An Option<T> / Result's arm is a set with at most one element: {} is    *)
(* None, {x} is Some(x).  A connector value is [backend, id]: id names the *)
(* connector state (the ClientConfig behind the Arc, or the native         *)
(* connector) that `stores` holds.                                         *)
(***************************************************************************)
EXTENDS Naturals, Sequences, FiniteSets, TLC

VARIABLES
    cfg,         \* the build's cargo features (the #[cfg(feature = ..)] guards)
    stores,      \* connector states, by id: [backend, roots]
    containers,  \* the live TlsContainer values: [tls |-> [backend, id]]
    newResult,   \* the last TlsContainer::new() call and what it returned
    result,      \* the last (whole) tls_domain call and what it returned
    shards,      \* per shard: a tls_domain call in progress, step by step
    built,       \* history: what each successful new() created, in order
    origin,      \* history: per container, the new() call it descends from
    failed       \* history: the connector ids a failed tls_domain was called on

vars == <<cfg, stores, containers, newResult, result, shards, built, origin, failed>>

(* ------------------------------ bounds --------------------------------- *)

MaxContainers == 3

NumShards == 2

Shards == 1..NumShards

(* ------------------------------ inputs --------------------------------- *)

\* url::Host: absent, a domain name, or an IP-address literal.
Hosts ==
    { [kind |-> "None", str |-> ""],
      [kind |-> "Domain", str |-> "gateway.discord.gg"],
      [kind |-> "Domain", str |-> "example.com"],
      [kind |-> "Ipv4", str |-> "127.0.0.1"] }

\* Url::port(): None, the TLS default, another port.
Ports == { {}, {443}, {8080} }

Urls == [host : Hosts, port : Ports]

\* The URLs the step-by-step specification draws from.
ConcUrls ==
    { [host |-> [kind |-> "None", str |-> ""], port |-> {}],
      [host |-> [kind |-> "Domain", str |-> "gateway.discord.gg"], port |-> {}],
      [host |-> [kind |-> "Domain", str |-> "gateway.discord.gg"], port |-> {8080}],
      [host |-> [kind |-> "Domain", str |-> "example.com"], port |-> {443}],
      [host |-> [kind |-> "Ipv4", str |-> "127.0.0.1"], port |-> {443}] }

(* ------------------------ backend selection ---------------------------- *)

Features ==
    [native : BOOLEAN, rustls : BOOLEAN,
     rustlsNativeRoots : BOOLEAN, rustlsWebpkiRoots : BOOLEAN]

\* #[cfg(all(feature = "native", not(feature = "rustls")))]
NativeActiveBothWays(f) == f.native

NativeActive(f) == f.native /\ ~f.rustls

\* #[cfg(feature = "rustls")]
RustlsActive(f) == f.rustls

\* TlsConnector is defined only under one of the two guards: other feature
\* sets do not build.
Compiles(f) == NativeActive(f) \/ RustlsActive(f)

(* --------------------------- TlsContainer::new ------------------------- *)

\* native backend: TlsConnector::new().map_err(..)?
NativeNewNoSource(nativeOk) ==
    IF nativeOk
    THEN [ok |-> {[backend |-> "NativeTls", roots |-> {"platform"}]},
          err |-> {}, loads |-> 0]
    ELSE [ok |-> {}, err |-> {[kind |-> "NativeTls", source |-> {}]}, loads |-> 0]

NativeNew(nativeOk) ==
    IF nativeOk
    THEN [ok |-> {[backend |-> "NativeTls", roots |-> {"platform"}]},
          err |-> {}, loads |-> 0]
    ELSE [ok |-> {},
          err |-> {[kind |-> "NativeTls", source |-> {"native_tls::Error"}]},
          loads |-> 0]

\* rustls backend: ClientConfig::new(), then the root store per feature.
\* loads counts the calls of rustls_native_certs::load_native_certs().
RustlsNewAlwaysLoads(f, certsOk) ==
    IF ~certsOk
    THEN [ok |-> {},
          err |-> {[kind |-> "NativeCerts", source |-> {"std::io::Error"}]},
          loads |-> 1]
    ELSE [ok |-> {[backend |-> "Rustls",
                   roots |-> {"os"} \cup
                       (IF f.rustlsWebpkiRoots THEN {"webpki"} ELSE {})]},
          err |-> {}, loads |-> 1]

RustlsNew(f, certsOk) ==
    LET config == [backend |-> "Rustls", roots |-> {}]
    IN  IF f.rustlsNativeRoots /\ ~certsOk
        THEN [ok |-> {},
              err |-> {[kind |-> "NativeCerts", source |-> {"std::io::Error"}]},
              loads |-> 1]
        ELSE LET withNative ==
                     IF f.rustlsNativeRoots
                     THEN [config EXCEPT !.roots = {"os"}]
                     ELSE config
                 withWebpki ==
                     IF f.rustlsWebpkiRoots
                     THEN [withNative EXCEPT !.roots = @ \cup {"webpki"}]
                     ELSE withNative
             IN  [ok |-> {withWebpki}, err |-> {},
                  loads |-> IF f.rustlsNativeRoots THEN 1 ELSE 0]

TlsContainerNew(f, nativeOk, certsOk) ==
    IF NativeActive(f) THEN NativeNew(nativeOk) ELSE RustlsNew(f, certsOk)

(* ------------------------------ cloning -------------------------------- *)

\* A clone that copies the connector state into a new one.
DeepCloneConnector(st, tls) ==
    [tls |-> [tls EXCEPT !.id = Len(st) + 1], stores |-> Append(st, st[tls.id])]

\* Arc::clone(&self.tls) / NativeTlsConnector::clone: another handle to the
\* connector state `tls.id`; no connector state is created or written.
CloneConnector(st, tls) == [tls |-> tls, stores |-> st]

(* --------------------------- tls_domain, pure -------------------------- *)

\* Url::host_str(): any host, a domain or an IP literal.
UrlHostStr(url) == IF url.host.kind = "None" THEN {} ELSE {url.host.str}

\* url.domain().unwrap_or_default()
UrlDomainOrDefault(url) ==
    IF url.host.kind = "Domain" THEN {url.host.str} ELSE {""}

\* Url::domain(): Some only when the host is a domain name, None when the
\* URL has no host or the host is an IP address.
UrlDomain(url) == IF url.host.kind = "Domain" THEN {url.host.str} ELSE {}

NoDomainError == [kind |-> "NoDomain", source |-> {}]

\* String::with_capacity(len + 4); push_str(domain); push_str(":443")
BuildAddress(domain) == domain \o ":443"

\* The variant of tokio_tungstenite::Connector the build returns.
ConnectorVariant(f) == IF NativeActive(f) THEN "NativeTls" ELSE "Rustls"

\* Connector::NativeTls(self.tls.clone()) / Connector::Rustls(Arc::clone(&self.tls))
MakeConnectorReloading(f, st, tls) ==
    [connector |-> [variant |-> ConnectorVariant(f), tls |-> tls],
     stores |-> [st EXCEPT ![tls.id].roots = @ \cup {"os"}]]

MakeConnector(f, st, tls) ==
    LET cl == CloneConnector(st, tls)
    IN  [connector |-> [variant |-> ConnectorVariant(f), tls |-> cl.tls],
         stores |-> cl.stores]

\* tls_domain with the URL's own port in the address.
TlsDomainUrlPort(f, st, k, url) ==
    LET domain == UrlDomain(url)
    IN  IF domain = {}
        THEN [ok |-> {}, err |-> {NoDomainError}, stores |-> st]
        ELSE LET d == CHOOSE x \in domain : TRUE
                 p == IF url.port = {} THEN 443 ELSE CHOOSE x \in url.port : TRUE
                 mk == MakeConnector(f, st, k.tls)
             IN  [ok |-> {[address |-> d \o ":" \o ToString(p),
                           connector |-> mk.connector]},
                  err |-> {}, stores |-> mk.stores]

\* tls_domain that takes the connector out of the container when it fails.
TlsDomainPoisoning(f, st, k, url) ==
    LET domain == UrlDomain(url)
    IN  IF domain = {}
        THEN [ok |-> {}, err |-> {NoDomainError},
              stores |-> [st EXCEPT ![k.tls.id].roots = {}]]
        ELSE LET mk == MakeConnector(f, st, k.tls)
             IN  [ok |-> {[address |-> BuildAddress(CHOOSE x \in domain : TRUE),
                           connector |-> mk.connector]},
                  err |-> {}, stores |-> mk.stores]

\* TlsContainer::tls_domain(&self, url): the Result, and the connector states
\* after the call.
TlsDomain(f, st, k, url) ==
    LET domain == UrlDomain(url)
    IN  IF domain = {}
        THEN [ok |-> {}, err |-> {NoDomainError}, stores |-> st]
        ELSE LET mk == MakeConnector(f, st, k.tls)
             IN  [ok |-> {[address |-> BuildAddress(CHOOSE x \in domain : TRUE),
                           connector |-> mk.connector]},
                  err |-> {}, stores |-> mk.stores]

(* ------------------------------ state ---------------------------------- *)

IdleShard == [pc |-> "idle", call |-> {}, domain |-> {}, address |-> {}, ret |-> {}]

Init ==
    /\ cfg \in {f \in Features : Compiles(f)}
    /\ stores = <<>>
    /\ containers = <<>>
    /\ newResult = {}
    /\ result = {}
    /\ shards = [s \in Shards |-> IdleShard]
    /\ built = <<>>
    /\ origin = <<>>
    /\ failed = {}

\* TlsContainer::new(): nativeOk and certsOk are what the platform answers to
\* TlsConnector::new() and to load_native_certs().
New(nativeOk, certsOk) ==
    LET r == TlsContainerNew(cfg, nativeOk, certsOk)
    IN  /\ r.ok # {} => Len(containers) < MaxContainers
        /\ newResult' = {[nativeOk |-> nativeOk, certsOk |-> certsOk,
                          ok |-> IF r.ok = {} THEN {} ELSE {Len(containers) + 1},
                          err |-> r.err, loads |-> r.loads]}
        /\ IF r.ok = {}
           THEN UNCHANGED <<stores, containers, built, origin>>
           ELSE LET config == CHOOSE x \in r.ok : TRUE
                    id == Len(stores) + 1
                IN  /\ stores' = Append(stores, config)
                    /\ containers' =
                           Append(containers,
                                  [tls |-> [backend |-> config.backend, id |-> id]])
                    /\ built' = Append(built, config)
                    /\ origin' = Append(origin, Len(built) + 1)
        /\ UNCHANGED <<cfg, result, shards, failed>>

\* #[derive(Clone)] on TlsContainer: clone the one field, tls.
Clone(c) ==
    /\ c \in 1..Len(containers)
    /\ Len(containers) < MaxContainers
    /\ LET cl == CloneConnector(stores, containers[c].tls)
       IN  /\ containers' = Append(containers, [tls |-> cl.tls])
           /\ stores' = cl.stores
    /\ origin' = Append(origin, origin[c])
    /\ UNCHANGED <<cfg, newResult, result, shards, built, failed>>

\* One whole tls_domain call on container c.
Resolve(c, url) ==
    /\ c \in 1..Len(containers)
    /\ LET r == TlsDomain(cfg, stores, containers[c], url)
       IN  /\ result' = {[c |-> c, url |-> url, ok |-> r.ok, err |-> r.err,
                          afterFailure |-> origin[c] \in failed]}
           /\ stores' = r.stores
           /\ failed' = IF r.ok = {} THEN failed \cup {origin[c]} ELSE failed
    /\ UNCHANGED <<cfg, containers, newResult, shards, built, origin>>

Next ==
    \/ \E nativeOk \in BOOLEAN, certsOk \in BOOLEAN : New(nativeOk, certsOk)
    \/ \E c \in 1..MaxContainers : Clone(c)
    \/ \E c \in 1..MaxContainers, url \in Urls : Resolve(c, url)

Spec == Init /\ [][Next]_vars

(* ---------------- tls_domain step by step, per shard ------------------- *)

\* The state once TlsContainer::new() has returned the client's container.
ConcInit ==
    /\ cfg \in {f \in Features : Compiles(f)}
    /\ LET config == CHOOSE x \in TlsContainerNew(cfg, TRUE, TRUE).ok : TRUE
       IN  /\ stores = <<config>>
           /\ containers = <<[tls |-> [backend |-> config.backend, id |-> 1]]>>
           /\ built = <<config>>
    /\ origin = <<1>>
    /\ newResult = {}
    /\ result = {}
    /\ shards = [s \in Shards |-> IdleShard]
    /\ failed = {}

\* A shard enters tls_domain(&self, url) on container c: self is a shared
\* borrow of the container, whose tls field the last step reads.
Call(s, c, url) ==
    /\ shards[s].pc \in {"idle", "done"}
    /\ c \in 1..Len(containers)
    /\ shards' = [shards EXCEPT ![s] =
           [pc |-> "domain", call |-> {[self |-> containers[c], url |-> url]},
            domain |-> {}, address |-> {}, ret |-> {}]]
    /\ UNCHANGED <<cfg, stores, containers, newResult, result, built, origin, failed>>

\* let domain = url.domain().ok_or(TlsError { NoDomain, None })?;
ReadDomain(s) ==
    /\ shards[s].pc = "domain"
    /\ LET call == CHOOSE x \in shards[s].call : TRUE
           domain == UrlDomain(call.url)
       IN  /\ shards' = [shards EXCEPT ![s] =
               IF domain = {}
               THEN [@ EXCEPT !.pc = "done",
                              !.ret = {[ok |-> {}, err |-> {NoDomainError}]}]
               ELSE [@ EXCEPT !.pc = "address", !.domain = domain]]
           /\ failed' = IF domain = {} THEN failed \cup {call.self.tls.id} ELSE failed
    /\ UNCHANGED <<cfg, stores, containers, newResult, result, built, origin>>

\* let mut address = String::with_capacity(..); push_str(domain); push_str(":443");
PushAddress(s) ==
    /\ shards[s].pc = "address"
    /\ shards' = [shards EXCEPT ![s] =
           [@ EXCEPT !.pc = "connector",
                     !.address = {BuildAddress(CHOOSE x \in shards[s].domain : TRUE)}]]
    /\ UNCHANGED <<cfg, stores, containers, newResult, result, built, origin, failed>>

\* A return step that refreshes the shared connector's roots as it clones.
ReturnConnectorWriting(s) ==
    /\ shards[s].pc = "connector"
    /\ LET call == CHOOSE x \in shards[s].call : TRUE
           mk == MakeConnectorReloading(cfg, stores, call.self.tls)
       IN  /\ shards' = [shards EXCEPT ![s] =
                  [@ EXCEPT !.pc = "done",
                            !.ret = {[ok |-> {[address |-> CHOOSE x \in shards[s].address : TRUE,
                                               connector |-> mk.connector]},
                                      err |-> {}]}]]
           /\ stores' = mk.stores
    /\ UNCHANGED <<cfg, containers, newResult, result, built, origin, failed>>

\* return Ok((address, Connector::..(clone of self.tls)));
ReturnConnector(s) ==
    /\ shards[s].pc = "connector"
    /\ LET call == CHOOSE x \in shards[s].call : TRUE
           mk == MakeConnector(cfg, stores, call.self.tls)
       IN  /\ shards' = [shards EXCEPT ![s] =
                  [@ EXCEPT !.pc = "done",
                            !.ret = {[ok |-> {[address |-> CHOOSE x \in shards[s].address : TRUE,
                                               connector |-> mk.connector]},
                                      err |-> {}]}]]
           /\ stores' = mk.stores
    /\ UNCHANGED <<cfg, containers, newResult, result, built, origin, failed>>

ConcNext ==
    \/ \E c \in 1..MaxContainers : Clone(c)
    \/ \E s \in Shards, c \in 1..MaxContainers, url \in ConcUrls : Call(s, c, url)
    \/ \E s \in Shards : ReadDomain(s)
    \/ \E s \in Shards : PushAddress(s)
    \/ \E s \in Shards : ReturnConnector(s)

ConcSpec == ConcInit /\ [][ConcNext]_vars

(* ------------------------------ claims --------------------------------- *)

\* C1 as stated: for every URL with a host component h, of any form, the last
\* tls_domain call returned the address h ++ ":443".
C1_AnyHostAddress ==
    \A r \in result :
        r.url.host.kind # "None" =>
            /\ r.ok # {}
            /\ \A o \in r.ok : o.address = r.url.host.str \o ":443"

\* C1, amended: for every container and every URL whose host is a domain name
\* h, tls_domain returns the address h ++ ":443" whatever port the URL carries
\* (none, 443, another): the URL's own port never appears in the address.
C1_DomainAddressPort443 ==
    \A r \in result :
        r.url.host.kind = "Domain" =>
            /\ r.ok # {}
            /\ \A o \in r.ok : o.address = r.url.host.str \o ":443"

\* A call with a domain host and the port 8080 has returned Ok.
C1_Witness ==
    \E r \in result :
        r.url.host.kind = "Domain" /\ r.url.port = {8080} /\ r.ok # {}

\* C2: for every container and every URL without a host, tls_domain returns
\* the error NoDomain (without a source) and no address and no connector.
C2_NoHostIsNoDomain ==
    \A r \in result :
        r.url.host.kind = "None" =>
            /\ r.ok = {}
            /\ r.err = {[kind |-> "NoDomain", source |-> {}]}

\* A call with a URL without a host has returned.
C2_Witness ==
    \E r \in result : r.url.host.kind = "None" /\ r.err # {}

\* C3 as stated: tls_domain fails only when the host is absent; with a host of
\* any form (a DNS name or an IP literal) it returns Ok.
C3_FailsOnlyWithoutHost ==
    \A r \in result :
        /\ r.err # {} => r.url.host.kind = "None"
        /\ r.url.host.kind # "None" => r.ok # {} /\ r.err = {}

\* C3, amended: tls_domain fails, with NoDomain, exactly when the URL's host is
\* not a domain name (it is absent or an IP-address literal); for every URL
\* whose host is a DNS name it returns Ok with one address and one connector.
C3_FailsIffNoDomainName ==
    \A r \in result :
        /\ r.err # {} <=> r.url.host.kind # "Domain"
        /\ r.err \subseteq {[kind |-> "NoDomain", source |-> {}]}
        /\ r.url.host.kind = "Domain" => Cardinality(r.ok) = 1
        /\ r.url.host.kind # "Domain" => r.ok = {}

\* A call with an IP-literal host has returned an error.
C3_Witness ==
    \E r \in result : r.url.host.kind = "Ipv4" /\ r.err # {}

\* C4: every container, original or clone, and every connector tls_domain
\* returns refer to the connector state its new() call created; only a
\* successful new() creates a connector state, so there are as many as
\* successful new() calls.
C4_OneConnectorStatePerNew ==
    /\ Len(stores) = Len(built)
    /\ \A c \in 1..Len(containers) : containers[c].tls.id = origin[c]
    /\ \A r \in result : \A o \in r.ok : o.connector.tls.id = origin[r.c]

\* tls_domain has returned Ok on a clone of an earlier container.
C4_Witness ==
    \E r \in result :
        /\ r.ok # {}
        /\ \E d \in 1..(r.c - 1) : origin[d] = origin[r.c]

\* C5: no step changes or removes a connector state that exists: not a
\* tls_domain call (Ok or Err), not a clone, not another new().
C5_ConnectorStateNeverChanges ==
    [][\A i \in 1..Len(stores) : Len(stores') >= i /\ stores'[i] = stores[i]]_vars

\* Two containers were built, one was cloned, a tls_domain call has failed and
\* the last one returned Ok.
C5_Witness ==
    /\ Len(built) >= 2
    /\ Len(containers) > Len(built)
    /\ failed # {}
    /\ \E r \in result : r.ok # {}

\* C6 as stated: after failed tls_domain calls on a container or its clones, a
\* later call with a URL that has a host (of any form) succeeds.
C6_AnyHostSucceedsAfterFailure ==
    \A r \in result :
        (r.afterFailure /\ r.url.host.kind # "None") => r.ok # {}

\* C6, amended: after any number of tls_domain calls that failed on a container
\* or its clones, a later call on it or a clone with a URL whose host is a
\* domain name succeeds and returns what it returns without the failures: the
\* address host ++ ":443" and a handle to the connector state as new() built it.
C6_DomainSucceedsAfterFailure ==
    \A r \in result :
        (r.afterFailure /\ r.url.host.kind = "Domain") =>
            /\ r.ok = {[address |-> r.url.host.str \o ":443",
                        connector |->
                            [variant |-> built[origin[r.c]].backend,
                             tls |-> [backend |-> built[origin[r.c]].backend,
                                      id |-> origin[r.c]]]]}
            /\ r.err = {}
            /\ stores[origin[r.c]] = built[origin[r.c]]

\* A call with a domain host has returned after a failed call on the same
\* container or a clone of it.
C6_Witness ==
    \E r \in result :
        r.afterFailure /\ r.url.host.kind = "Domain" /\ r.ok # {}

\* What a tls_domain call returns when nothing else runs, on the connector
\* states as new() built them.
AloneResult(call) ==
    LET r == TlsDomain(cfg, built, call.self, call.url)
    IN  [ok |-> r.ok, err |-> r.err]

\* C7: in every interleaving of the shards' tls_domain steps and clones, a
\* finished call has returned what it returns when run alone, which its URL and
\* its container decide, and the connector states are as new() built them.
C7_InterleavedEqualsAlone ==
    /\ stores = built
    /\ \A s \in Shards :
           shards[s].pc = "done" =>
               \A call \in shards[s].call : shards[s].ret = {AloneResult(call)}

\* One shard's call has returned Ok while another shard's call is between its
\* steps, with a clone made.
C7_Witness ==
    \E s \in Shards, t \in Shards :
        /\ s # t
        /\ shards[s].pc = "done"
        /\ \E x \in shards[s].ret : x.ok # {}
        /\ shards[t].pc = "connector"
        /\ Len(containers) > 1

\* C8: new() returns every backend failure, with the kind of the active backend
\* and a source: NativeTls when the native connector cannot be built,
\* NativeCerts when the rustls backend cannot load the native roots; then no
\* container is returned, and new() has no other error.
C8_NewReturnsBackendFailure ==
    \A r \in newResult :
        /\ (cfg.native /\ ~cfg.rustls /\ ~r.nativeOk) =>
               \E e \in r.err : e.kind = "NativeTls"
        /\ (cfg.rustls /\ cfg.rustlsNativeRoots /\ ~r.certsOk) =>
               \E e \in r.err : e.kind = "NativeCerts"
        /\ \A e \in r.err :
               /\ e.source # {}
               /\ e.kind = IF cfg.rustls THEN "NativeCerts" ELSE "NativeTls"
               /\ IF cfg.rustls THEN cfg.rustlsNativeRoots /\ ~r.certsOk
                                ELSE ~r.nativeOk
        /\ r.err # {} => r.ok = {}
        /\ r.err = {} => r.ok # {}

\* A new() call has failed.
C8_Witness ==
    \E r \in newResult : r.err # {} /\ r.ok = {}

\* C9 as stated: whenever the rustls backend has the bundled (webpki) roots
\* configured, new() succeeds and does not load the native certificates.
C9_WebpkiNeverLoads ==
    \A r \in newResult :
        (cfg.rustls /\ cfg.rustlsWebpkiRoots) =>
            r.ok # {} /\ r.err = {} /\ r.loads = 0

\* C9, amended: when the rustls backend has the bundled (webpki) roots
\* configured and the native roots not, new() succeeds, does not load the
\* native certificates and does not fail with NativeCerts, whatever the state
\* of the OS certificate store.
C9_WebpkiOnlyNeverLoads ==
    \A r \in newResult :
        (cfg.rustls /\ cfg.rustlsWebpkiRoots /\ ~cfg.rustlsNativeRoots) =>
            r.ok # {} /\ r.err = {} /\ r.loads = 0

\* new() has succeeded with the webpki roots alone while the OS certificate
\* store could not be loaded.
C9_Witness ==
    \E r \in newResult :
        /\ cfg.rustls /\ cfg.rustlsWebpkiRoots /\ ~cfg.rustlsNativeRoots
        /\ ~r.certsOk
        /\ r.ok # {}

\* C10: exactly one backend is active in a build, rustls when both features
\* are set, and every connector tls_domain returns is of the variant of the
\* backend that built its container.
C10_OneBackendTagsConnectors ==
    /\ NativeActive(cfg) # RustlsActive(cfg)
    /\ (cfg.native /\ cfg.rustls) => (RustlsActive(cfg) /\ ~NativeActive(cfg))
    /\ \A i \in 1..Len(stores) :
           stores[i].backend = IF cfg.rustls THEN "Rustls" ELSE "NativeTls"
    /\ \A r \in result : \A o \in r.ok :
           /\ o.connector.variant = stores[o.connector.tls.id].backend
           /\ o.connector.tls.backend = o.connector.variant

\* With both backend features set, tls_domain has returned a Rustls connector.
C10_Witness ==
    /\ cfg.native /\ cfg.rustls
    /\ \E r \in result : \E o \in r.ok : o.connector.variant = "Rustls"

====
